---- MODULE Spec2Model ----
(***************************************************************************)
(* Model of contracts/PrivacyWalletRecoveryFHE.sol: the encrypted guardian *)
(* registry, the recovery request store, the homomorphic approval          *)
(* aggregation and the decryption request / callback handshake.            *)
(*                                                                         *)
(* The FHE library (FHE.asEuint32, FHE.add, FHE.requestDecryption,         *)
(* FHE.checkSignatures) is an imported dependency.  It is modelled by its  *)
(* capability contract: a ciphertext is a handle that carries a plaintext  *)
(* nobody in the contract reads, requestDecryption returns an identifier   *)
(* that was not returned before, and checkSignatures accepts exactly the   *)
(* faithful decryption of the handles saved for that identifier.           *)
(***************************************************************************)
EXTENDS Integers, Sequences, FiniteSets, TLC

\* ---------------------------------------------------------------- bounds
MaxRequests == 2        \* number of requestWalletRecovery calls explored
MaxDecryptions == 2     \* number of FHE.requestDecryption issuances explored
MaxGuardians == 2       \* longest guardian array passed to setEncryptedGuardians
MaxApprovals == 2       \* affirmative submissions explored per request
MaxTime == 1            \* largest block.timestamp explored

MaxId == MaxRequests                \* identifiers explored: 0 .. MaxId
Ids == 0 .. MaxId
Users == {"alice", "bob"}           \* msg.sender values
ZeroAddress == "0x0"                \* address(0)
Addresses == Users \cup {ZeroAddress}
GuardianHandles == {"ctA"}          \* euint32 handles of encrypted guardian addresses

\* euint32 / uint32 arithmetic wraps at 2^32 = Half32 * Half32
Half32 == 65536
Wrap32(n) ==
    IF n \div Half32 < Half32 THEN n
    ELSE n - (((n \div Half32) \div Half32) * Half32) * Half32

\* ------------------------------------------------------------ ciphertexts
\* euint32: a handle; init = FALSE is the uninitialised (zero) handle of a
\* storage slot that was never written.
NullHandle == [init |-> FALSE, enc |-> 0]

\* Faulty variant of FHE_asEuint32: every value encrypts as one.
FHE_asEuint32One(v) == [init |-> TRUE, enc |-> 1]

FHE_asEuint32(v) == [init |-> TRUE, enc |-> Wrap32(v)]

\* Faulty variant of FHE_add: the sum is overwritten, not accumulated.
FHE_add_overwrite(a, b) == [init |-> TRUE, enc |-> Wrap32(b.enc)]

FHE_add(a, b) == [init |-> TRUE, enc |-> Wrap32(a.enc + b.enc)]

\* What the decryption oracle would reveal for a handle.
Decrypt(h) == h.enc

\* ebool as used by submitEncryptedApproval: encryptedApproval.value
Votes == {[value |-> TRUE], [value |-> FALSE]}

\* bytes cleartexts: one ABI word
Cleartexts == {[word |-> n] : n \in 0 .. MaxApprovals}

abiDecodeUint32(cleartexts) == Wrap32(cleartexts.word)

Proofs == {"valid", "invalid"}

\* ------------------------------------------------------------------ state
VARIABLES
    requestCounter,      \* uint256 public requestCounter
    userGuardians,       \* mapping(address => EncryptedGuardian[])
    recoveryRequests,    \* mapping(uint256 => RecoveryRequest)
    requestToUser,       \* mapping(uint256 => address)
    events,              \* emitted RecoveryRequested / RecoveryExecuted, in order
    decryptionRequests,  \* FHE library: handles saved per decryption request id
    approvals,           \* history: affirmative votes accepted per request id
    creator,             \* history: msg.sender of the call that allocated the id
    rejected,            \* history: calls that reverted, as the specification in use records them
    lastCall,            \* history: the call just made, as the specification in use records it
    storedData,          \* frontend: the `guardians_<account>` and `requests_<account>` blobs
    clients,             \* frontend: each browser session's React state
    dateNow              \* frontend: Date.now(), the source of fresh request ids

contractVars == <<requestCounter, userGuardians, recoveryRequests, requestToUser,
                  events, decryptionRequests>>
frontendVars == <<storedData, clients, dateNow>>
vars == <<requestCounter, userGuardians, recoveryRequests, requestToUser,
          events, decryptionRequests, approvals, creator, rejected, lastCall,
          storedData, clients, dateNow>>

DefaultRequest ==
    [requestId |-> 0, encryptedApprovalCount |-> NullHandle,
     timestamp |-> 0, executed |-> FALSE]

\* forRequest is history: the requestId argument of the issuing call.
NoDecryption == [issued |-> FALSE, handle |-> NullHandle, forRequest |-> 0]

NoCall == [op |-> "none", id |-> 0, word |-> 0, proof |-> "-", outcome |-> "-"]

\* Browser sessions.  They are connected with the same account, so that
\* `guardians_${account}` and `requests_${account}` name one blob each.
Clients == {"tab1", "tab2"}
Account == "alice"

MaxFrontendGuardians == 2
MaxFrontendRequests == 2

\* useState defaults: guardians = [], recoveryRequests = []
NoClientData == [guardians |-> <<>>, recoveryRequests |-> <<>>]

FrontendInit ==
    /\ storedData = [guardians |-> <<>>, requests |-> <<>>]
    /\ clients = [c \in Clients |-> NoClientData]
    /\ dateNow = 0

Init ==
    /\ requestCounter = 0
    /\ userGuardians = [u \in Addresses |-> <<>>]
    /\ recoveryRequests = [i \in Ids |-> DefaultRequest]
    /\ requestToUser = [i \in Ids |-> ZeroAddress]
    /\ events = <<>>
    /\ decryptionRequests = [i \in Ids |-> NoDecryption]
    /\ approvals = [i \in Ids |-> 0]
    /\ creator = [i \in Ids |-> ZeroAddress]
    /\ rejected = {}
    /\ lastCall = NoCall
    /\ FrontendInit

\* A reverted transaction writes nothing.
Revert == UNCHANGED contractVars /\ UNCHANGED <<approvals, creator>>

\* --------------------------------------------------------------- registry
GuardianArrays == UNION {[1 .. n -> GuardianHandles] : n \in 0 .. MaxGuardians}

\* for (i = 0; i < guardians.length; i++) userGuardians[msg.sender].push(guardians[i])
RECURSIVE PushAll(_, _, _)
PushAll(stored, guardians, i) ==
    IF i > Len(guardians) THEN stored
    ELSE PushAll(Append(stored, [encryptedAddress |-> guardians[i]]), guardians, i + 1)

\* Faulty variant of setEncryptedGuardians: the old array is not deleted.
setEncryptedGuardiansAppend(sender, guardians) ==
    /\ userGuardians' = [userGuardians EXCEPT
           ![sender] = PushAll(userGuardians[sender], guardians, 1)]
    /\ UNCHANGED <<requestCounter, recoveryRequests, requestToUser, events,
                   decryptionRequests, approvals, creator>>

\* Faulty variant of setEncryptedGuardians: every holder's array is replaced.
setEncryptedGuardiansAll(sender, guardians) ==
    /\ userGuardians' = [u \in Addresses |-> PushAll(<<>>, guardians, 1)]
    /\ UNCHANGED <<requestCounter, recoveryRequests, requestToUser, events,
                   decryptionRequests, approvals, creator>>

setEncryptedGuardians(sender, guardians) ==
    /\ userGuardians' = [userGuardians EXCEPT ![sender] = PushAll(<<>>, guardians, 1)]
    /\ UNCHANGED <<requestCounter, recoveryRequests, requestToUser, events,
                   decryptionRequests, approvals, creator>>

\* Faulty variant of getGuardianCount: one more than the length.
getGuardianCountOffByOne(user) == Len(userGuardians[user]) + 1

getGuardianCount(user) == Len(userGuardians[user])

\* ---------------------------------------------------------- request store
\* block.timestamp never decreases from one block to the next; the newest
\* request carries the latest timestamp the contract has observed.
LatestTimestamp == recoveryRequests[requestCounter].timestamp

\* Faulty variant of requestWalletRecovery: the counter advances by two.
requestWalletRecoverySkip(sender, blockTimestamp) ==
    /\ requestCounter + 1 < MaxRequests
    /\ blockTimestamp >= LatestTimestamp
    /\ LET newId == requestCounter + 2 IN
        /\ requestCounter' = newId
        /\ recoveryRequests' = [recoveryRequests EXCEPT ![newId] =
               [requestId |-> newId,
                encryptedApprovalCount |-> FHE_asEuint32(0),
                timestamp |-> blockTimestamp,
                executed |-> FALSE]]
        /\ requestToUser' = [requestToUser EXCEPT ![newId] = sender]
        /\ events' = Append(events, [name |-> "RecoveryRequested",
                                     requestId |-> newId,
                                     timestamp |-> blockTimestamp])
        /\ approvals' = [approvals EXCEPT ![newId] = 0]
        /\ creator' = [creator EXCEPT ![newId] = sender]
        /\ UNCHANGED <<userGuardians, decryptionRequests>>

requestWalletRecovery(sender, blockTimestamp) ==
    /\ requestCounter < MaxRequests
    /\ blockTimestamp >= LatestTimestamp
    /\ LET newId == requestCounter + 1 IN
        /\ requestCounter' = newId
        /\ recoveryRequests' = [recoveryRequests EXCEPT ![newId] =
               [requestId |-> newId,
                encryptedApprovalCount |-> FHE_asEuint32(0),
                timestamp |-> blockTimestamp,
                executed |-> FALSE]]
        /\ requestToUser' = [requestToUser EXCEPT ![newId] = sender]
        /\ events' = Append(events, [name |-> "RecoveryRequested",
                                     requestId |-> newId,
                                     timestamp |-> blockTimestamp])
        /\ approvals' = [approvals EXCEPT ![newId] = 0]
        /\ creator' = [creator EXCEPT ![newId] = sender]
        /\ UNCHANGED <<userGuardians, decryptionRequests>>

\* ------------------------------------------------------------- aggregator
\* Faulty variant of submitEncryptedApprovalOutcome: no range check on the id.
submitEncryptedApprovalOutcomeNoRange(requestId) ==
    IF recoveryRequests[requestId].executed THEN "AlreadyExecuted"
    ELSE "ok"

\* Faulty variant of submitEncryptedApprovalOutcome: no executed guard.
submitEncryptedApprovalOutcomeNoGuard(requestId) ==
    IF ~(requestId > 0 /\ requestId <= requestCounter) THEN "InvalidRequest"
    ELSE "ok"

\* The outcome of a call: "ok", or the error it reverts with.
submitEncryptedApprovalOutcome(requestId) ==
    IF ~(requestId > 0 /\ requestId <= requestCounter) THEN "InvalidRequest"
    ELSE IF recoveryRequests[requestId].executed THEN "AlreadyExecuted"
    ELSE "ok"

\* Faulty variant of submitEncryptedApproval: an approving vote is added to
\* the counter of every created request.
submitEncryptedApprovalEveryRequest(sender, requestId, encryptedApproval) ==
    IF submitEncryptedApprovalOutcome(requestId) # "ok"
    THEN Revert
    ELSE
        /\ IF encryptedApproval.value
           THEN /\ \A id \in 1 .. requestCounter : approvals[id] < MaxApprovals
                /\ recoveryRequests' = [id \in Ids |->
                       IF id \in 1 .. requestCounter
                       THEN [recoveryRequests[id] EXCEPT
                                !.encryptedApprovalCount =
                                    FHE_add(recoveryRequests[id].encryptedApprovalCount,
                                            FHE_asEuint32(1))]
                       ELSE recoveryRequests[id]]
                /\ approvals' = [id \in Ids |->
                       IF id \in 1 .. requestCounter THEN approvals[id] + 1
                       ELSE approvals[id]]
           ELSE UNCHANGED <<recoveryRequests, approvals>>
        /\ UNCHANGED <<requestCounter, userGuardians, requestToUser, events,
                       decryptionRequests, creator>>

\* Faulty variant of submitEncryptedApproval: a rejecting vote is counted too.
submitEncryptedApprovalAnyVote(sender, requestId, encryptedApproval) ==
    IF submitEncryptedApprovalOutcome(requestId) # "ok"
    THEN Revert
    ELSE
        /\ approvals[requestId] < MaxApprovals
        /\ recoveryRequests' = [recoveryRequests EXCEPT
               ![requestId].encryptedApprovalCount =
                   FHE_add(recoveryRequests[requestId].encryptedApprovalCount,
                           FHE_asEuint32(1))]
        /\ approvals' = [approvals EXCEPT ![requestId] = @ + 1]
        /\ UNCHANGED <<requestCounter, userGuardians, requestToUser, events,
                       decryptionRequests, creator>>

submitEncryptedApproval(sender, requestId, encryptedApproval) ==
    IF submitEncryptedApprovalOutcome(requestId) # "ok"
    THEN Revert
    ELSE
        /\ IF encryptedApproval.value
           THEN /\ approvals[requestId] < MaxApprovals
                /\ recoveryRequests' = [recoveryRequests EXCEPT
                       ![requestId].encryptedApprovalCount =
                           FHE_add(recoveryRequests[requestId].encryptedApprovalCount,
                                   FHE_asEuint32(1))]
                /\ approvals' = [approvals EXCEPT ![requestId] = @ + 1]
           ELSE UNCHANGED <<recoveryRequests, approvals>>
        /\ UNCHANGED <<requestCounter, userGuardians, requestToUser, events,
                       decryptionRequests, creator>>

\* ------------------------------------------------- decryption coordinator
IssuedIds == {d \in Ids : decryptionRequests[d].issued}

\* modifier onlyUser(address user) { _; }
onlyUser(user, sender) == TRUE

\* Faulty variant of requestApprovalDecryptionOutcome: no executed guard.
requestApprovalDecryptionOutcomeNoGuard(sender, requestId) ==
    IF ~onlyUser(requestToUser[requestId], sender) THEN "Unauthorized"
    ELSE IF ~recoveryRequests[requestId].encryptedApprovalCount.init THEN "CapabilityRejected"
    ELSE "ok"

\* FHE.requestDecryption refuses a handle that no FHE operation produced.
requestApprovalDecryptionOutcome(sender, requestId) ==
    IF ~onlyUser(requestToUser[requestId], sender) THEN "Unauthorized"
    ELSE IF recoveryRequests[requestId].executed THEN "AlreadyExecuted"
    ELSE IF ~recoveryRequests[requestId].encryptedApprovalCount.init THEN "CapabilityRejected"
    ELSE "ok"

\* reqId: the identifier FHE.requestDecryption returns, one it has not
\* returned before.
requestApprovalDecryption(sender, requestId, reqId) ==
    /\ Cardinality(IssuedIds) < MaxDecryptions
    /\ reqId \notin IssuedIds
    /\ IF requestApprovalDecryptionOutcome(sender, requestId) # "ok"
       THEN Revert
       ELSE
           /\ decryptionRequests' = [decryptionRequests EXCEPT ![reqId] =
                  [issued |-> TRUE,
                   handle |-> recoveryRequests[requestId].encryptedApprovalCount,
                   forRequest |-> requestId]]
           /\ requestToUser' = [requestToUser EXCEPT ![reqId] = requestToUser[requestId]]
           /\ UNCHANGED <<requestCounter, userGuardians, recoveryRequests, events,
                          approvals, creator>>

\* Faulty variant of checkSignatures: every proof is accepted.
checkSignaturesNoVerify(requestId, cleartexts, proof) == TRUE

\* FHE.checkSignatures(requestId, cleartexts, proof): loads the handles saved
\* for requestId (fails when there are none) and verifies that the proof signs
\* cleartexts as their decryption.
checkSignatures(requestId, cleartexts, proof) ==
    /\ decryptionRequests[requestId].issued
    /\ proof = "valid"
    /\ cleartexts.word = Decrypt(decryptionRequests[requestId].handle)

\* Faulty variant of MajorityReached: a tie executes.
MajorityReachedOnTie(approvalCount, guardianCount) == approvalCount >= guardianCount \div 2

\* approvalCount > userGuardians[user].length / 2
MajorityReached(approvalCount, guardianCount) == approvalCount > guardianCount \div 2

\* Faulty variant of decryptApprovalOutcome: the proof is not checked.
decryptApprovalOutcomeNoProof(requestId, cleartexts, proof) ==
    IF requestToUser[requestId] = ZeroAddress THEN "InvalidRequest"
    ELSE IF recoveryRequests[requestId].executed THEN "AlreadyExecuted"
    ELSE "ok"

\* require(user != address(0)); FHE.checkSignatures(...); require(!req.executed)
decryptApprovalOutcome(requestId, cleartexts, proof) ==
    IF requestToUser[requestId] = ZeroAddress THEN "InvalidRequest"
    ELSE IF ~checkSignatures(requestId, cleartexts, proof) THEN "ProofInvalid"
    ELSE IF recoveryRequests[requestId].executed THEN "AlreadyExecuted"
    ELSE "ok"

decryptApproval(requestId, cleartexts, proof) ==
    LET user == requestToUser[requestId]
        approvalCount == abiDecodeUint32(cleartexts)
        req == recoveryRequests[requestId]
    IN
    IF decryptApprovalOutcome(requestId, cleartexts, proof) # "ok"
    THEN Revert
    ELSE
        /\ IF MajorityReached(approvalCount, Len(userGuardians[user]))
           THEN /\ recoveryRequests' = [recoveryRequests EXCEPT ![requestId].executed = TRUE]
                /\ events' = Append(events, [name |-> "RecoveryExecuted",
                                             requestId |-> req.requestId,
                                             timestamp |-> 0])
           ELSE UNCHANGED <<recoveryRequests, events>>
        /\ UNCHANGED <<requestCounter, userGuardians, requestToUser, decryptionRequests,
                       approvals, creator>>

\* ---------------------------------------------------------------- frontend
\* App.tsx approveRequest: threshold = Math.floor(guardians.length / 2) + 1;
\* status = newApprovals >= threshold ? "approved" : "pending"
approveRequestStatus(newApprovals, guardiansLength) ==
    LET threshold == (guardiansLength \div 2) + 1 IN
    IF newApprovals >= threshold THEN "approved" ELSE "pending"

\* What loadData leaves in the session's state when the store holds `data`:
\* getData, JSON.parse, setGuardians, setRecoveryRequests.
Loaded(data) == [guardians |-> data.guardians, recoveryRequests |-> data.requests]

loadData(c) ==
    /\ clients' = [clients EXCEPT ![c] = Loaded(storedData)]
    /\ UNCHANGED <<storedData, dateNow>>

\* setData(`guardians_${account}`, [...guardians, newGuardian]), then loadData.
addGuardian(c, newGuardianAddress) ==
    LET updatedGuardians == Append(clients[c].guardians, newGuardianAddress)
        written == [storedData EXCEPT !.guardians = updatedGuardians]
    IN  /\ Len(clients[c].guardians) < MaxFrontendGuardians
        /\ storedData' = written
        /\ clients' = [clients EXCEPT ![c] = Loaded(written)]
        /\ UNCHANGED dateNow

\* The new request's id is made of Date.now() and a random suffix: it is fresh.
initiateRecovery(c) ==
    LET newRequest == [id |-> dateNow + 1, approvals |-> 0, status |-> "pending"]
        updatedRequests == Append(clients[c].recoveryRequests, newRequest)
        written == [storedData EXCEPT !.requests = updatedRequests]
    IN  /\ dateNow < MaxFrontendRequests
        /\ dateNow' = dateNow + 1
        /\ storedData' = written
        /\ clients' = [clients EXCEPT ![c] = Loaded(written)]

\* The list written is the session's own copy with one entry replaced;
\* setData overwrites the whole blob; loadData follows.
approveRequest(c, requestId) ==
    LET me == clients[c]
        updatedRequests ==
            [i \in 1 .. Len(me.recoveryRequests) |->
                LET request == me.recoveryRequests[i] IN
                IF request.id = requestId
                THEN [request EXCEPT
                         !.approvals = request.approvals + 1,
                         !.status = approveRequestStatus(request.approvals + 1,
                                                         Len(me.guardians))]
                ELSE request]
        written == [storedData EXCEPT !.requests = updatedRequests]
    IN  /\ storedData' = written
        /\ clients' = [clients EXCEPT ![c] = Loaded(written)]
        /\ UNCHANGED dateNow

\* isGuardian(): guardians.some(g => g.address === account)
isGuardian(c) ==
    \E i \in 1 .. Len(clients[c].guardians) : clients[c].guardians[i] = Account

\* The ids of the requests a session shows an Approve button for.
ApproveButtons(c) ==
    IF isGuardian(c)
    THEN {clients[c].recoveryRequests[i].id :
              i \in {j \in 1 .. Len(clients[c].recoveryRequests) :
                         clients[c].recoveryRequests[j].status = "pending"}}
    ELSE {}

\* ---------------------------------------------------------- specification
\* Every entry point may be called at any time, by anyone, with any argument.
Next ==
    \/ \E sender \in Users, guardians \in GuardianArrays :
           setEncryptedGuardians(sender, guardians) /\ UNCHANGED <<rejected, lastCall, frontendVars>>
    \/ \E sender \in Users, blockTimestamp \in 1 .. MaxTime :
           requestWalletRecovery(sender, blockTimestamp) /\ UNCHANGED <<rejected, lastCall, frontendVars>>
    \/ \E sender \in Users, requestId \in Ids, encryptedApproval \in Votes :
           submitEncryptedApproval(sender, requestId, encryptedApproval) /\ UNCHANGED <<rejected, lastCall, frontendVars>>
    \/ \E sender \in Users, requestId \in Ids, reqId \in Ids :
           requestApprovalDecryption(sender, requestId, reqId) /\ UNCHANGED <<rejected, lastCall, frontendVars>>
    \/ \E requestId \in Ids, cleartexts \in Cleartexts, proof \in Proofs :
           decryptApproval(requestId, cleartexts, proof) /\ UNCHANGED <<rejected, lastCall, frontendVars>>

Spec == Init /\ [][Next]_vars

\* SpecRetry: the same calls; it is remembered when the callback of the first
\* round issued fails proof verification before any other round is issued.
NextRetry ==
    \/ \E sender \in Users, guardians \in GuardianArrays :
           setEncryptedGuardians(sender, guardians) /\ UNCHANGED <<rejected, lastCall, frontendVars>>
    \/ \E sender \in Users, blockTimestamp \in 1 .. MaxTime :
           requestWalletRecovery(sender, blockTimestamp) /\ UNCHANGED <<rejected, lastCall, frontendVars>>
    \/ \E sender \in Users, requestId \in Ids, encryptedApproval \in Votes :
           submitEncryptedApproval(sender, requestId, encryptedApproval)
           /\ UNCHANGED <<rejected, lastCall, frontendVars>>
    \/ \E sender \in Users, requestId \in Ids, reqId \in Ids :
           requestApprovalDecryption(sender, requestId, reqId)
           /\ UNCHANGED <<rejected, lastCall, frontendVars>>
    \/ \E requestId \in Ids, cleartexts \in Cleartexts, proof \in Proofs :
           /\ decryptApproval(requestId, cleartexts, proof)
           /\ rejected' =
                  IF /\ decryptApprovalOutcome(requestId, cleartexts, proof) = "ProofInvalid"
                     /\ IssuedIds = {requestId}
                  THEN {requestId}
                  ELSE rejected
           /\ UNCHANGED <<lastCall, frontendVars>>

SpecRetry == Init /\ [][NextRetry]_vars

\* SpecMajority: the decision table of the callback.  It starts in the states
\* reached when a holder has registered g guardians and created request 1, n
\* affirmative votes were submitted for it, and requestApprovalDecryption(1)
\* returned the identifier 1; from there only callbacks arrive.
MaxEvalGuardians == 6
MaxEvalCount == 6

EvalCleartexts == {[word |-> n] : n \in 0 .. MaxEvalCount}

RECURSIVE AddOnes(_, _)
AddOnes(counter, n) ==
    IF n = 0 THEN counter ELSE AddOnes(FHE_add(counter, FHE_asEuint32(1)), n - 1)

InitMajority ==
    \E holder \in Users, g \in 0 .. MaxEvalGuardians, n \in 0 .. MaxEvalCount :
        /\ requestCounter = 1
        /\ userGuardians = [u \in Addresses |->
               IF u = holder THEN PushAll(<<>>, [i \in 1 .. g |-> "ctA"], 1) ELSE <<>>]
        /\ recoveryRequests = [i \in Ids |->
               IF i = 1
               THEN [requestId |-> 1,
                     encryptedApprovalCount |-> AddOnes(FHE_asEuint32(0), n),
                     timestamp |-> 1,
                     executed |-> FALSE]
               ELSE DefaultRequest]
        /\ requestToUser = [i \in Ids |-> IF i = 1 THEN holder ELSE ZeroAddress]
        /\ events = <<[name |-> "RecoveryRequested", requestId |-> 1, timestamp |-> 1]>>
        /\ decryptionRequests = [i \in Ids |->
               IF i = 1
               THEN [issued |-> TRUE,
                     handle |-> AddOnes(FHE_asEuint32(0), n),
                     forRequest |-> 1]
               ELSE NoDecryption]
        /\ approvals = [i \in Ids |-> IF i = 1 THEN n ELSE 0]
        /\ creator = [i \in Ids |-> IF i = 1 THEN holder ELSE ZeroAddress]
        /\ rejected = {}
        /\ lastCall = NoCall
        /\ FrontendInit

NextMajority ==
    \E requestId \in Ids, cleartexts \in EvalCleartexts, proof \in Proofs :
        /\ decryptApproval(requestId, cleartexts, proof)
        /\ lastCall' = [op |-> "decryptApproval", id |-> requestId,
                        word |-> cleartexts.word, proof |-> proof,
                        outcome |-> decryptApprovalOutcome(requestId, cleartexts, proof)]
        /\ UNCHANGED <<rejected, frontendVars>>

SpecMajority == InitMajority /\ [][NextMajority]_vars

\* SpecE2E: the end-to-end scenario, in its order: a holder registers three
\* guardians, creates request 1, two affirmative votes are submitted for it,
\* the holder requests decryption, and the callback of that round delivers
\* the cleartext 2 with a valid proof.
E2EGuardianArrays == [1 .. 3 -> {"ctA", "ctB"}]

E2ECallback ==
    \E d \in IssuedIds : decryptApproval(d, [word |-> 2], "valid")

NextE2E ==
    \/ \E holder \in Users, guardians \in E2EGuardianArrays :
           /\ requestCounter = 0
           /\ \A u \in Users : userGuardians[u] = <<>>
           /\ setEncryptedGuardians(holder, guardians)
           /\ UNCHANGED <<rejected, lastCall, frontendVars>>
    \/ \E holder \in Users, blockTimestamp \in 1 .. MaxTime :
           /\ requestCounter = 0
           /\ Len(userGuardians[holder]) = 3
           /\ requestWalletRecovery(holder, blockTimestamp)
           /\ UNCHANGED <<rejected, lastCall, frontendVars>>
    \/ \E guardian \in Users :
           /\ requestCounter = 1
           /\ approvals[1] < 2
           /\ IssuedIds = {}
           /\ submitEncryptedApproval(guardian, 1, [value |-> TRUE])
           /\ UNCHANGED <<rejected, lastCall, frontendVars>>
    \/ \E reqId \in Ids :
           /\ requestCounter = 1
           /\ approvals[1] = 2
           /\ IssuedIds = {}
           /\ requestApprovalDecryption(creator[1], 1, reqId)
           /\ UNCHANGED <<rejected, lastCall, frontendVars>>
    \/ E2ECallback /\ UNCHANGED <<rejected, lastCall, frontendVars>>

SpecE2E == Init /\ [][NextE2E]_vars

\* SpecSubmit: the same calls; rejected collects, for every
\* submitEncryptedApproval call that reverted, how the id it named relates to
\* requestCounter and the error it reverted with.
IdCase(requestId) ==
    IF requestId = 0 THEN "zero"
    ELSE IF requestId > requestCounter THEN "above"
    ELSE "created"

NextSubmit ==
    \/ \E sender \in Users, guardians \in GuardianArrays :
           setEncryptedGuardians(sender, guardians) /\ UNCHANGED <<rejected, lastCall, frontendVars>>
    \/ \E sender \in Users, blockTimestamp \in 1 .. MaxTime :
           requestWalletRecovery(sender, blockTimestamp) /\ UNCHANGED <<rejected, lastCall, frontendVars>>
    \/ \E sender \in Users, requestId \in Ids, encryptedApproval \in Votes :
           /\ submitEncryptedApproval(sender, requestId, encryptedApproval)
           /\ rejected' =
                  IF submitEncryptedApprovalOutcome(requestId) # "ok"
                  THEN rejected \cup {<<IdCase(requestId), submitEncryptedApprovalOutcome(requestId)>>}
                  ELSE rejected
           /\ UNCHANGED <<lastCall, frontendVars>>
    \/ \E sender \in Users, requestId \in Ids, reqId \in Ids :
           requestApprovalDecryption(sender, requestId, reqId)
           /\ UNCHANGED <<rejected, lastCall, frontendVars>>
    \/ \E requestId \in Ids, cleartexts \in Cleartexts, proof \in Proofs :
           decryptApproval(requestId, cleartexts, proof) /\ UNCHANGED <<rejected, lastCall, frontendVars>>

SpecSubmit == Init /\ [][NextSubmit]_vars

\* SpecVotes: the same calls; lastCall describes the step just taken when it
\* was a submitEncryptedApproval call that did not revert: who called, for
\* which request, with which vote, the cleartext of the counter before the
\* call, and the length of the run of approving calls by this caller for this
\* request that the call completes (base is the cleartext before that run).
VoteCall(sender, requestId, encryptedApproval) ==
    LET before == Decrypt(recoveryRequests[requestId].encryptedApprovalCount)
        continues == /\ lastCall.op = "submitEncryptedApproval"
                     /\ lastCall.sender = sender
                     /\ lastCall.id = requestId
                     /\ lastCall.value
                     /\ encryptedApproval.value
    IN [op |-> "submitEncryptedApproval",
        sender |-> sender,
        id |-> requestId,
        value |-> encryptedApproval.value,
        before |-> before,
        run |-> IF ~encryptedApproval.value THEN 0
                ELSE IF continues THEN lastCall.run + 1 ELSE 1,
        base |-> IF continues THEN lastCall.base ELSE before]

NextVotes ==
    \/ \E sender \in Users, guardians \in GuardianArrays :
           /\ setEncryptedGuardians(sender, guardians)
           /\ lastCall' = NoCall
           /\ UNCHANGED <<rejected, frontendVars>>
    \/ \E sender \in Users, blockTimestamp \in 1 .. MaxTime :
           /\ requestWalletRecovery(sender, blockTimestamp)
           /\ lastCall' = NoCall
           /\ UNCHANGED <<rejected, frontendVars>>
    \/ \E sender \in Users, requestId \in Ids, encryptedApproval \in Votes :
           /\ submitEncryptedApproval(sender, requestId, encryptedApproval)
           /\ lastCall' =
                  IF submitEncryptedApprovalOutcome(requestId) = "ok"
                  THEN VoteCall(sender, requestId, encryptedApproval)
                  ELSE NoCall
           /\ UNCHANGED <<rejected, frontendVars>>
    \/ \E sender \in Users, requestId \in Ids, reqId \in Ids :
           /\ requestApprovalDecryption(sender, requestId, reqId)
           /\ lastCall' = NoCall
           /\ UNCHANGED <<rejected, frontendVars>>
    \/ \E requestId \in Ids, cleartexts \in Cleartexts, proof \in Proofs :
           /\ decryptApproval(requestId, cleartexts, proof)
           /\ lastCall' = NoCall
           /\ UNCHANGED <<rejected, frontendVars>>

SpecVotes == Init /\ [][NextVotes]_vars

\* SpecRegistry: the guardian registry on its own, with two distinguishable
\* ciphertexts and arrays of up to MaxRegistryGuardians entries.  lastCall
\* describes the call just made: the caller, the array passed and the number
\* of guardians the caller had before.
MaxRegistryGuardians == 3

RegistryHandles == {"ctA", "ctB"}

RegistryArrays == UNION {[1 .. n -> RegistryHandles] : n \in 0 .. MaxRegistryGuardians}

NextRegistry ==
    \E sender \in Users, guardians \in RegistryArrays :
        /\ setEncryptedGuardians(sender, guardians)
        /\ lastCall' = [op |-> "setEncryptedGuardians",
                        sender |-> sender,
                        guardians |-> guardians,
                        before |-> Len(userGuardians[sender])]
        /\ UNCHANGED <<rejected, frontendVars>>

SpecRegistry == Init /\ [][NextRegistry]_vars

\* SpecFrame: the same calls; lastCall describes the step just taken when it
\* was a setEncryptedGuardians call: the caller, the length of the array
\* passed and the number of guardians the caller had before.
NextFrame ==
    \/ \E sender \in Users, guardians \in GuardianArrays :
           /\ setEncryptedGuardians(sender, guardians)
           /\ lastCall' = [op |-> "setEncryptedGuardians",
                           sender |-> sender,
                           length |-> Len(guardians),
                           before |-> Len(userGuardians[sender])]
           /\ UNCHANGED <<rejected, frontendVars>>
    \/ \E sender \in Users, blockTimestamp \in 1 .. MaxTime :
           /\ requestWalletRecovery(sender, blockTimestamp)
           /\ lastCall' = NoCall
           /\ UNCHANGED <<rejected, frontendVars>>
    \/ \E sender \in Users, requestId \in Ids, encryptedApproval \in Votes :
           /\ submitEncryptedApproval(sender, requestId, encryptedApproval)
           /\ lastCall' = NoCall
           /\ UNCHANGED <<rejected, frontendVars>>
    \/ \E sender \in Users, requestId \in Ids, reqId \in Ids :
           /\ requestApprovalDecryption(sender, requestId, reqId)
           /\ lastCall' = NoCall
           /\ UNCHANGED <<rejected, frontendVars>>
    \/ \E requestId \in Ids, cleartexts \in Cleartexts, proof \in Proofs :
           /\ decryptApproval(requestId, cleartexts, proof)
           /\ lastCall' = NoCall
           /\ UNCHANGED <<rejected, frontendVars>>

SpecFrame == Init /\ [][NextFrame]_vars

\* SpecDecryption: the same calls; lastCall describes the step just taken
\* when it was a requestApprovalDecryption call that reverted: the caller, the
\* request id named and the error.
NextDecryption ==
    \/ \E sender \in Users, guardians \in GuardianArrays :
           /\ setEncryptedGuardians(sender, guardians)
           /\ lastCall' = NoCall
           /\ UNCHANGED <<rejected, frontendVars>>
    \/ \E sender \in Users, blockTimestamp \in 1 .. MaxTime :
           /\ requestWalletRecovery(sender, blockTimestamp)
           /\ lastCall' = NoCall
           /\ UNCHANGED <<rejected, frontendVars>>
    \/ \E sender \in Users, requestId \in Ids, encryptedApproval \in Votes :
           /\ submitEncryptedApproval(sender, requestId, encryptedApproval)
           /\ lastCall' = NoCall
           /\ UNCHANGED <<rejected, frontendVars>>
    \/ \E sender \in Users, requestId \in Ids, reqId \in Ids :
           /\ requestApprovalDecryption(sender, requestId, reqId)
           /\ lastCall' =
                  IF requestApprovalDecryptionOutcome(sender, requestId) # "ok"
                  THEN [op |-> "requestApprovalDecryption",
                        sender |-> sender,
                        id |-> requestId,
                        outcome |-> requestApprovalDecryptionOutcome(sender, requestId)]
                  ELSE NoCall
           /\ UNCHANGED <<rejected, frontendVars>>
    \/ \E requestId \in Ids, cleartexts \in Cleartexts, proof \in Proofs :
           /\ decryptApproval(requestId, cleartexts, proof)
           /\ lastCall' = NoCall
           /\ UNCHANGED <<rejected, frontendVars>>

SpecDecryption == Init /\ [][NextDecryption]_vars

\* SpecRounds: the same calls; lastCall keeps the identifiers of the rounds
\* for which a callback passed all guards of decryptApproval.
ResolvedRounds == IF lastCall.op = "callbacks" THEN lastCall.resolved ELSE {}

NextRounds ==
    \/ \E sender \in Users, guardians \in GuardianArrays :
           setEncryptedGuardians(sender, guardians) /\ UNCHANGED <<rejected, lastCall, frontendVars>>
    \/ \E sender \in Users, blockTimestamp \in 1 .. MaxTime :
           requestWalletRecovery(sender, blockTimestamp) /\ UNCHANGED <<rejected, lastCall, frontendVars>>
    \/ \E sender \in Users, requestId \in Ids, encryptedApproval \in Votes :
           submitEncryptedApproval(sender, requestId, encryptedApproval)
           /\ UNCHANGED <<rejected, lastCall, frontendVars>>
    \/ \E sender \in Users, requestId \in Ids, reqId \in Ids :
           requestApprovalDecryption(sender, requestId, reqId)
           /\ UNCHANGED <<rejected, lastCall, frontendVars>>
    \/ \E requestId \in Ids, cleartexts \in Cleartexts, proof \in Proofs :
           /\ decryptApproval(requestId, cleartexts, proof)
           /\ lastCall' =
                  IF decryptApprovalOutcome(requestId, cleartexts, proof) = "ok"
                  THEN [op |-> "callbacks", resolved |-> ResolvedRounds \cup {requestId}]
                  ELSE lastCall
           /\ UNCHANGED <<rejected, frontendVars>>

SpecRounds == Init /\ [][NextRounds]_vars

\* SpecFrontend: the web client alone, two sessions of one account, any
\* handler at any time.  Approve is offered for the pending requests of a
\* session whose account is among its guardians.  lastCall counts, per request
\* id, the approveRequest calls made.
FrontendIds == 1 .. MaxFrontendRequests

ApprovalsMade(r) == IF lastCall.op = "approveRequest" THEN lastCall.made[r] ELSE 0

NextFrontend ==
    \/ \E c \in Clients :
           /\ loadData(c)
           /\ UNCHANGED <<contractVars, approvals, creator, rejected, lastCall>>
    \/ \E c \in Clients, newGuardianAddress \in Users :
           /\ addGuardian(c, newGuardianAddress)
           /\ UNCHANGED <<contractVars, approvals, creator, rejected, lastCall>>
    \/ \E c \in Clients :
           /\ initiateRecovery(c)
           /\ UNCHANGED <<contractVars, approvals, creator, rejected, lastCall>>
    \/ \E c \in Clients, requestId \in FrontendIds :
           /\ requestId \in ApproveButtons(c)
           /\ approveRequest(c, requestId)
           /\ lastCall' = [op |-> "approveRequest",
                           made |-> [r \in FrontendIds |->
                               ApprovalsMade(r) + IF r = requestId THEN 1 ELSE 0]]
           /\ UNCHANGED <<contractVars, approvals, creator, rejected>>

SpecFrontend == Init /\ [][NextFrontend]_vars

\* ------------------------------------------------------- shared vocabulary
Allocated == 1 .. requestCounter

Majority(guardianCount) == (guardianCount \div 2) + 1

ExecutedEvents(id) ==
    Cardinality({i \in DOMAIN events :
                    events[i].name = "RecoveryExecuted" /\ events[i].requestId = id})

\* The RecoveryRequested events emitted so far, in order.
IsRecoveryRequested(e) == e.name = "RecoveryRequested"

RequestedEvents == SelectSeq(events, IsRecoveryRequested)

\* The proof is a genuine signature over the faithful decryption of the
\* handles saved for round d.
Verified(d, cleartexts, proof) ==
    /\ decryptionRequests[d].issued
    /\ proof = "valid"
    /\ cleartexts.word = decryptionRequests[d].handle.enc

\* ------------------------------------------------------------------ claims

\* C1: a request becomes executed only in a step in which the affirmative
\* votes accepted for that very request are at least floor(n/2)+1, n being the
\* guardian count of the holder who created it; a request without
\* affirmative votes is never executed.
C1_ExecutedOnlyWithOwnMajority ==
    [][\A r \in Allocated :
          (~recoveryRequests[r].executed /\ recoveryRequests'[r].executed)
          => /\ approvals[r] >= Majority(Len(userGuardians[creator[r]]))
             /\ approvals[r] >= 1]_vars

\* C2: the executed flag of a request only ever goes from false to true, and
\* only in a decryptApproval step whose proof verification succeeded.
C2_ExecutedSetOnlyByVerifiedCallback ==
    [][\A r \in Allocated :
          recoveryRequests'[r].executed # recoveryRequests[r].executed
          => /\ ~recoveryRequests[r].executed
             /\ recoveryRequests'[r].executed
             /\ \E d \in Ids, cleartexts \in Cleartexts, proof \in Proofs :
                    /\ Verified(d, cleartexts, proof)
                    /\ decryptApproval(d, cleartexts, proof)]_vars

\* An allocated request has been executed by a callback.
C2_Witness ==
    \E r \in Allocated : recoveryRequests[r].executed /\ ExecutedEvents(r) = 1

\* C3: once a request is executed, no step changes its flag, its counter or
\* any other field of its record.
C3_ExecutedRequestImmutable ==
    [][\A r \in Allocated :
          recoveryRequests[r].executed
          => recoveryRequests'[r] = recoveryRequests[r]]_vars

\* A request was executed, a request was created after that, and a further
\* decryption round was issued.
C3_Witness ==
    \E r \in Allocated, i \in DOMAIN events, j \in DOMAIN events :
        /\ recoveryRequests[r].executed
        /\ events[i] = [name |-> "RecoveryExecuted", requestId |-> r, timestamp |-> 0]
        /\ i < j
        /\ events[j].name = "RecoveryRequested"
        /\ Cardinality(IssuedIds) = MaxDecryptions

\* C4: a successful callback for a round d issued by
\* requestApprovalDecryption(r) changes the executed flag of no request other
\* than r, and executes r when the delivered count meets r's majority.
C4_CallbackResolvesIssuingRequest ==
    [][\A d \in Ids, cleartexts \in Cleartexts, proof \in Proofs :
          ( /\ decryptionRequests[d].issued
            /\ decryptApprovalOutcome(d, cleartexts, proof) = "ok"
            /\ decryptApproval(d, cleartexts, proof) )
          => LET r == decryptionRequests[d].forRequest IN
             /\ \A id \in Ids \ {r} :
                    recoveryRequests'[id].executed = recoveryRequests[id].executed
             /\ cleartexts.word >= Majority(Len(userGuardians[creator[r]]))
                    => recoveryRequests'[r].executed]_vars

\* C5: requestApprovalDecryption by anyone but the holder who created the
\* request fails with Unauthorized and writes nothing.
C5_NonOwnerDecryptionUnauthorized ==
    [][\A sender \in Users, r \in Allocated, reqId \in Ids :
          ( /\ sender # creator[r]
            /\ requestApprovalDecryption(sender, r, reqId) )
          => /\ requestApprovalDecryptionOutcome(sender, r) = "Unauthorized"
             /\ UNCHANGED contractVars]_vars

\* C6: a callback for an identifier that no requestApprovalDecryption
\* returned fails with InvalidRequest.
C6_UnknownRoundInvalidRequest ==
    \A d \in Ids \ IssuedIds, cleartexts \in Cleartexts, proof \in Proofs :
        decryptApprovalOutcome(d, cleartexts, proof) = "InvalidRequest"

\* C9: whatever the order and interleaving of the submissions, the cleartext
\* of a request's counter is the number of affirmative votes accepted for it.
C9_CounterIsAffirmativeCount ==
    \A r \in Allocated :
        Decrypt(recoveryRequests[r].encryptedApprovalCount) = approvals[r]

\* Two requests have received affirmative votes, one of them several.
C9_Witness ==
    \E r1 \in Allocated, r2 \in Allocated :
        /\ r1 # r2
        /\ approvals[r1] = MaxApprovals
        /\ approvals[r2] >= 1
        /\ Decrypt(recoveryRequests[r1].encryptedApprovalCount) = MaxApprovals

\* C7: a callback that passes its guards executes the request exactly when
\* the delivered count is at least floor(g/2)+1, g being the guardian count of
\* the holder the round is recorded for; a tie does not execute.  The
\* frontend's threshold gives the same decision.
C7_MajorityDecision ==
    ( /\ lastCall.op = "decryptApproval"
      /\ lastCall.outcome = "ok" )
    => LET g == Len(userGuardians[requestToUser[lastCall.id]]) IN
       /\ recoveryRequests[lastCall.id].executed <=> lastCall.word >= Majority(g)
       /\ recoveryRequests[lastCall.id].executed
              <=> approveRequestStatus(lastCall.word, g) = "approved"

\* With 5 guardians a delivered count of 3 has executed the request.
C7_Witness ==
    /\ lastCall.op = "decryptApproval"
    /\ lastCall.outcome = "ok"
    /\ lastCall.word = 3
    /\ Len(userGuardians[requestToUser[lastCall.id]]) = 5
    /\ recoveryRequests[lastCall.id].executed

C10_EndToEndExecutesRequest1 ==
    [][E2ECallback
       => /\ recoveryRequests'[1].executed
          /\ ExecutedEvents(1)' = 1]_vars

\* C11: a callback with a verified proof for a round that was issued for a
\* request which is already executed fails with AlreadyExecuted and can write
\* nothing: no flag changes and no execution event is appended.
C11_CallbackOnExecutedRequestFails ==
    \A d \in IssuedIds, cleartexts \in Cleartexts, proof \in Proofs :
        ( /\ Verified(d, cleartexts, proof)
          /\ decryptionRequests[d].forRequest \in Allocated
          /\ recoveryRequests[decryptionRequests[d].forRequest].executed )
        => /\ decryptApprovalOutcome(d, cleartexts, proof) = "AlreadyExecuted"
           /\ ~ENABLED ( /\ decryptApproval(d, cleartexts, proof)
                         /\ UNCHANGED <<rejected, lastCall, frontendVars>>
                         /\ <<contractVars, approvals, creator>>'
                                # <<contractVars, approvals, creator>> )

\* C12: in every state, submitEncryptedApproval for an id that is 0 or above
\* requestCounter fails with InvalidRequest, and for a created request whose
\* executed flag is true it fails with AlreadyExecuted; in both cases the call
\* can write nothing, no counter and no other state.
C12_SubmitApprovalErrors ==
    \A sender \in Users, requestId \in Ids, encryptedApproval \in Votes :
        /\ (requestId = 0 \/ requestId > requestCounter)
           => submitEncryptedApprovalOutcome(requestId) = "InvalidRequest"
        /\ (requestId \in Allocated /\ recoveryRequests[requestId].executed)
           => submitEncryptedApprovalOutcome(requestId) = "AlreadyExecuted"
        /\ ( \/ requestId = 0
             \/ requestId > requestCounter
             \/ recoveryRequests[requestId].executed )
           => ~ENABLED ( /\ submitEncryptedApproval(sender, requestId, encryptedApproval)
                         /\ UNCHANGED <<rejected, lastCall, frontendVars>>
                         /\ <<contractVars, approvals, creator>>'
                                # <<contractVars, approvals, creator>> )

\* Submissions for id 0, for an id above requestCounter and for an executed
\* request have all been rejected with their errors.
C12_Witness ==
    /\ rejected = {<<"zero", "InvalidRequest">>, <<"above", "InvalidRequest">>,
                   <<"created", "AlreadyExecuted">>}
    /\ \E r \in Allocated : recoveryRequests[r].executed

\* C13: right after a submitEncryptedApproval call that did not revert, the
\* cleartext of the request's counter is the cleartext before the call plus 1
\* for an approving vote and the cleartext before the call for a rejecting
\* vote; consecutive approving calls of one caller each count, so a run of k
\* such calls has added k.
C13_ApprovalAddsOne ==
    lastCall.op = "submitEncryptedApproval"
    => LET counter == Decrypt(recoveryRequests[lastCall.id].encryptedApprovalCount) IN
       /\ lastCall.value => counter = lastCall.before + 1
       /\ ~lastCall.value => counter = lastCall.before
       /\ lastCall.value => counter = lastCall.base + lastCall.run

\* One caller has just approved the same request for the second time in a
\* row and the counter went from 0 to 2.
C13_Witness ==
    /\ lastCall.op = "submitEncryptedApproval"
    /\ lastCall.value
    /\ lastCall.run = 2
    /\ lastCall.base = 0
    /\ Decrypt(recoveryRequests[lastCall.id].encryptedApprovalCount) = 2

\* C14: the identifiers announced by the creation events are 1, 2, 3, ... in
\* the order of the calls, whoever the callers are: the k-th
\* requestWalletRecovery allocates k, requestCounter is the number of
\* allocations, 0 is never allocated and no identifier is allocated twice.
C14_IdentifiersAllocatedInSequence ==
    /\ Len(RequestedEvents) = requestCounter
    /\ \A k \in 1 .. Len(RequestedEvents) :
           /\ RequestedEvents[k].requestId = k
           /\ recoveryRequests[k].requestId = k
    /\ \A i \in DOMAIN RequestedEvents, j \in DOMAIN RequestedEvents :
           i # j => RequestedEvents[i].requestId # RequestedEvents[j].requestId
    /\ \A k \in DOMAIN RequestedEvents : RequestedEvents[k].requestId # 0

\* Two different holders have created requests 1 and 2, and a decryption
\* round has been issued.
C14_Witness ==
    /\ requestCounter = 2
    /\ creator[1] # creator[2]
    /\ RequestedEvents[1].requestId = 1
    /\ RequestedEvents[2].requestId = 2
    /\ IssuedIds # {}

\* C15: a requestWalletRecovery step by holder h at time t that allocates id
\* leaves the stored request id with a counter that decrypts to 0, executed
\* false, timestamp t and owner h, and has emitted exactly one
\* RecoveryRequested event for id, the last event, carrying (id, t).
C15_CreatedRequestContents ==
    [][\A sender \in Users, blockTimestamp \in 1 .. MaxTime :
          requestWalletRecovery(sender, blockTimestamp)
          => LET id == requestCounter + 1 IN
             /\ requestCounter' = id
             /\ recoveryRequests'[id].requestId = id
             /\ recoveryRequests'[id].encryptedApprovalCount.init
             /\ Decrypt(recoveryRequests'[id].encryptedApprovalCount) = 0
             /\ ~recoveryRequests'[id].executed
             /\ recoveryRequests'[id].timestamp = blockTimestamp
             /\ requestToUser'[id] = sender
             /\ Cardinality({i \in DOMAIN events' :
                                /\ events'[i].name = "RecoveryRequested"
                                /\ events'[i].requestId = id}) = 1
             /\ events'[Len(events')] = [name |-> "RecoveryRequested",
                                         requestId |-> id,
                                         timestamp |-> blockTimestamp]]_vars

\* Request 2 has just been created, by another holder than request 1, after
\* an execution event was emitted, and its record is the fresh one.
C15_Witness ==
    /\ requestCounter = 2
    /\ creator[1] # creator[2]
    /\ \E i \in DOMAIN events : events[i].name = "RecoveryExecuted"
    /\ events[Len(events)].name = "RecoveryRequested"
    /\ events[Len(events)].requestId = 2
    /\ requestToUser[2] = creator[2]
    /\ Decrypt(recoveryRequests[2].encryptedApprovalCount) = 0
    /\ ~recoveryRequests[2].executed

\* C16: right after setEncryptedGuardians(guardians) by holder h, the count
\* of h is Len(guardians) and the stored array holds exactly the ciphertexts
\* passed, in their order, however many guardians h had before; an empty
\* array makes the count 0.
C16_SetGuardiansReplaces ==
    lastCall.op = "setEncryptedGuardians"
    => /\ getGuardianCount(lastCall.sender) = Len(lastCall.guardians)
       /\ Len(userGuardians[lastCall.sender]) = Len(lastCall.guardians)
       /\ \A i \in 1 .. Len(lastCall.guardians) :
              userGuardians[lastCall.sender][i].encryptedAddress = lastCall.guardians[i]
       /\ lastCall.guardians = <<>> => getGuardianCount(lastCall.sender) = 0

\* A holder with three guardians has just replaced them by two others.
C16_Witness ==
    /\ lastCall.op = "setEncryptedGuardians"
    /\ lastCall.before = 3
    /\ lastCall.guardians = <<"ctB", "ctA">>
    /\ getGuardianCount(lastCall.sender) = 2

\* C17: a setEncryptedGuardians step by holder h changes the guardian array
\* of no other holder, and leaves requestCounter, every request record, every
\* recorded owner, every saved decryption round and the events as they were.
C17_SetGuardiansFrame ==
    [][lastCall'.op = "setEncryptedGuardians"
       => /\ \A u \in Addresses \ {lastCall'.sender} :
                 userGuardians'[u] = userGuardians[u]
          /\ requestCounter' = requestCounter
          /\ recoveryRequests' = recoveryRequests
          /\ requestToUser' = requestToUser
          /\ decryptionRequests' = decryptionRequests
          /\ events' = events]_vars

\* A holder has just changed their guardians while the other holder has
\* guardians, two requests exist, one of them executed, and decryption rounds
\* are recorded.
C17_Witness ==
    /\ lastCall.op = "setEncryptedGuardians"
    /\ lastCall.before # lastCall.length
    /\ \E u \in Users \ {lastCall.sender} : userGuardians[u] # <<>>
    /\ requestCounter = 2
    /\ \E r \in Allocated : recoveryRequests[r].executed
    /\ \E r \in Allocated : approvals[r] > 0 /\ ~recoveryRequests[r].executed
    /\ IssuedIds # {}

\* C18: getGuardianCount returns 0 for every holder at deployment, and every
\* step leaves the value it returns for a holder as it was unless the step is
\* a setEncryptedGuardians call by that holder, after which it returns the
\* length of the array passed.
C18_GuardianCountReadsLastSet ==
    /\ \A u \in Addresses : getGuardianCount(u) = 0
    /\ [][\A u \in Addresses :
             getGuardianCount(u)' =
                 IF lastCall'.op = "setEncryptedGuardians" /\ lastCall'.sender = u
                 THEN lastCall'.length
                 ELSE getGuardianCount(u)]_vars

\* A holder has just replaced two guardians by one and reads 1, while the
\* other holder still reads 0 after a request was created.
C18_Witness ==
    /\ lastCall.op = "setEncryptedGuardians"
    /\ lastCall.before = 2
    /\ lastCall.length = 1
    /\ getGuardianCount(lastCall.sender) = 1
    /\ \E u \in Users \ {lastCall.sender} : getGuardianCount(u) = 0
    /\ requestCounter > 0

\* C19: in every state, requestApprovalDecryption for an id that is 0 or
\* above requestCounter fails with InvalidRequest and can write nothing: no
\* decryption round is saved and no owner is recorded.
C19_DecryptionOfUnknownRequestInvalid ==
    \A sender \in Users, requestId \in Ids, reqId \in Ids :
        (requestId = 0 \/ requestId > requestCounter)
        => /\ requestApprovalDecryptionOutcome(sender, requestId) = "InvalidRequest"
           /\ ~ENABLED ( /\ requestApprovalDecryption(sender, requestId, reqId)
                         /\ UNCHANGED <<rejected, lastCall, frontendVars>>
                         /\ <<contractVars, approvals, creator>>'
                                # <<contractVars, approvals, creator>> )

\* C20: in every state, requestApprovalDecryption for a created request whose
\* executed flag is true fails with AlreadyExecuted and can write nothing: no
\* decryption round is saved and no owner is recorded for a round.
C20_DecryptionOfExecutedRequestFails ==
    \A sender \in Users, requestId \in Allocated, reqId \in Ids :
        recoveryRequests[requestId].executed
        => /\ requestApprovalDecryptionOutcome(sender, requestId) = "AlreadyExecuted"
           /\ ~ENABLED ( /\ requestApprovalDecryption(sender, requestId, reqId)
                         /\ UNCHANGED <<rejected, lastCall, frontendVars>>
                         /\ decryptionRequests' # decryptionRequests )
           /\ ~ENABLED ( /\ requestApprovalDecryption(sender, requestId, reqId)
                         /\ UNCHANGED <<rejected, lastCall, frontendVars>>
                         /\ <<contractVars, approvals, creator>>'
                                # <<contractVars, approvals, creator>> )

\* The holder of an executed request has just asked for its decryption and
\* was refused; the only round on record is the one that executed it.
C20_Witness ==
    /\ lastCall.op = "requestApprovalDecryption"
    /\ lastCall.outcome = "AlreadyExecuted"
    /\ lastCall.id \in Allocated
    /\ lastCall.sender = creator[lastCall.id]
    /\ recoveryRequests[lastCall.id].executed
    /\ IssuedIds = {lastCall.id}

\* C21: when a round d1 issued for request r holds a count below r's
\* majority (its verified callback leaves r open) and a later round d2 issued
\* for r holds a count that reaches the majority, the verified callback of d2
\* executes r.
C21_LaterRoundExecutesRequest ==
    [][\A d1 \in IssuedIds, d2 \in IssuedIds, cleartexts \in Cleartexts :
          LET r == decryptionRequests[d2].forRequest
              g == Len(userGuardians[creator[r]])
          IN ( /\ d1 # d2
               /\ r \in Allocated
               /\ decryptionRequests[d1].forRequest = r
               /\ ~recoveryRequests[r].executed
               /\ Decrypt(decryptionRequests[d1].handle) < Majority(g)
               /\ cleartexts.word >= Majority(g)
               /\ Verified(d2, cleartexts, "valid")
               /\ decryptApproval(d2, cleartexts, "valid") )
             => recoveryRequests'[r].executed]_vars

\* C22: a callback that passes its guards decides with the guardian count
\* that the holder owning the request of the round has when the callback is
\* processed: it executes exactly when the delivered count reaches the
\* majority of that holder's current registry.
C22_DecisionUsesOwnersCurrentCount ==
    [][\A d \in IssuedIds, cleartexts \in Cleartexts, proof \in Proofs :
          LET r == decryptionRequests[d].forRequest
              g == Len(userGuardians[creator[r]])
          IN ( /\ r \in Allocated
               /\ decryptApprovalOutcome(d, cleartexts, proof) = "ok"
               /\ decryptApproval(d, cleartexts, proof) )
             => ( (\E id \in Ids : /\ ~recoveryRequests[id].executed
                                   /\ recoveryRequests'[id].executed)
                  <=> cleartexts.word >= Majority(g) )]_vars

\* C23: every RecoveryExecuted event carries the id of a created request, in
\* 1 .. requestCounter and never 0, that request is executed, and no id
\* appears in two RecoveryExecuted events.
C23_ExecutionEventNamesExecutedRequest ==
    \A i \in DOMAIN events :
        events[i].name = "RecoveryExecuted"
        => /\ events[i].requestId \in Allocated
           /\ recoveryRequests[events[i].requestId].executed
           /\ ExecutedEvents(events[i].requestId) = 1

\* C24: for a submitEncryptedApproval call that does not revert, whether the
\* stored counter of the request is rewritten does not depend on the vote: an
\* approving call can rewrite it exactly when a rejecting call can.
C24_VoteDoesNotShowInEffects ==
    \A sender \in Users, requestId \in Allocated :
        ( /\ submitEncryptedApprovalOutcome(requestId) = "ok"
          /\ approvals[requestId] < MaxApprovals )
        => ( ENABLED ( /\ submitEncryptedApproval(sender, requestId, [value |-> TRUE])
                       /\ UNCHANGED <<rejected, lastCall, frontendVars>>
                       /\ recoveryRequests'[requestId] # recoveryRequests[requestId] )
             <=>
             ENABLED ( /\ submitEncryptedApproval(sender, requestId, [value |-> FALSE])
                       /\ UNCHANGED <<rejected, lastCall, frontendVars>>
                       /\ recoveryRequests'[requestId] # recoveryRequests[requestId] ) )

\* C25: after a callback with a verified proof has been processed for round
\* d, every further callback for d fails with InvalidRequest.
C25_ResolvedRoundIsConsumed ==
    [][\A d \in IssuedIds, cleartexts \in Cleartexts, proof \in Proofs :
          ( /\ Verified(d, cleartexts, proof)
            /\ decryptApprovalOutcome(d, cleartexts, proof) = "ok"
            /\ decryptApproval(d, cleartexts, proof) )
          => \A again \in Cleartexts, proofAgain \in Proofs :
                 decryptApprovalOutcome(d, again, proofAgain)' = "InvalidRequest"]_vars

\* C26: no request has two decryption rounds on record at the same time:
\* among the rounds issued for a request, at most one still has its entry in
\* requestToUser.
C26_OneOutstandingRoundPerRequest ==
    \A r \in Allocated :
        Cardinality({d \in IssuedIds : /\ decryptionRequests[d].forRequest = r
                                       /\ requestToUser[d] # ZeroAddress}) <= 1

\* C27: the callback checks the round lookup first, the proof second and the
\* executed guard third: a callback for an identifier that was never issued
\* fails with InvalidRequest even when its proof is invalid too, and a
\* callback with an invalid proof for an issued round whose request is
\* already executed fails with ProofInvalid, not AlreadyExecuted.
C27_CallbackCheckOrder ==
    \A d \in Ids, cleartexts \in Cleartexts :
        /\ d \notin IssuedIds
           => decryptApprovalOutcome(d, cleartexts, "invalid") = "InvalidRequest"
        /\ (d \in IssuedIds /\ recoveryRequests[d].executed)
           => decryptApprovalOutcome(d, cleartexts, "invalid") = "ProofInvalid"

\* C28: while a round d issued for a created request r has had no successful
\* callback, nothing is blocked: submitEncryptedApproval on r and on every
\* other created request does not revert, and the cleartext saved for d is a
\* snapshot that later approvals of r do not enter, r's counter holding at
\* least that count.
C28_OutstandingRoundBlocksNothing ==
    \A d \in IssuedIds \ ResolvedRounds :
        LET r == decryptionRequests[d].forRequest IN
        r \in Allocated
        => /\ submitEncryptedApprovalOutcome(r) = "ok"
           /\ \A other \in Allocated \ {r} :
                  ~recoveryRequests[other].executed
                  => submitEncryptedApprovalOutcome(other) = "ok"
           /\ Decrypt(decryptionRequests[d].handle)
                  <= Decrypt(recoveryRequests[r].encryptedApprovalCount)

\* C29: a submitEncryptedApproval step that does not revert on request r
\* changes nothing but r's counter: the record of every other request, r's
\* executed flag, timestamp and id, every recorded owner, requestCounter,
\* every guardian registry, the saved rounds and the events stay as they were.
C29_SubmitApprovalFrame ==
    [][lastCall'.op = "submitEncryptedApproval"
       => /\ \A id \in Ids \ {lastCall'.id} :
                 recoveryRequests'[id] = recoveryRequests[id]
          /\ recoveryRequests'[lastCall'.id].executed
                 = recoveryRequests[lastCall'.id].executed
          /\ recoveryRequests'[lastCall'.id].timestamp
                 = recoveryRequests[lastCall'.id].timestamp
          /\ recoveryRequests'[lastCall'.id].requestId
                 = recoveryRequests[lastCall'.id].requestId
          /\ requestToUser' = requestToUser
          /\ requestCounter' = requestCounter
          /\ userGuardians' = userGuardians
          /\ decryptionRequests' = decryptionRequests
          /\ events' = events]_vars

\* An approval has just been added to one request while the request of
\* another holder holds a different count, guardians are registered and a
\* round is on record.
C29_Witness ==
    /\ lastCall.op = "submitEncryptedApproval"
    /\ lastCall.value
    /\ requestCounter = 2
    /\ creator[1] # creator[2]
    /\ \E other \in Allocated \ {lastCall.id} :
           /\ approvals[other] = 1
           /\ approvals[lastCall.id] = 2
    /\ \E u \in Users : userGuardians[u] # <<>>
    /\ IssuedIds # {}

\* C30: the approval tally of a request is not updated by a plaintext
\* read-modify-write: an approval leaves in the stored tally of its request
\* every approval made for it so far, also when two sessions approve from
\* lists each loaded before the other's write.  Violated: approveRequest adds
\* one to the session's own copy and overwrites the stored list with it.
C30_ConcurrentApprovalsBothCounted ==
    [][\A r \in FrontendIds :
          ( /\ lastCall'.op = "approveRequest"
            /\ lastCall'.made[r] # ApprovalsMade(r) )
          => \E i \in 1 .. Len(storedData'.requests) :
                 /\ storedData'.requests[i].id = r
                 /\ storedData'.requests[i].approvals = lastCall'.made[r]]_vars

\* C31: the recorded owner of a created request never changes: for every
\* allocated id the owner mapping holds the sender of the call that allocated
\* it, whatever rounds were issued and whatever requests were created later.
\* Violated: requestApprovalDecryption writes the correlation record of the
\* round it issues into the same mapping, at the round's id.
C31_OwnerOfCreatedRequestIsItsCreator ==
    \A r \in Allocated : requestToUser[r] = creator[r]

\* C32: request storage is populated exactly for the allocated ids: the
\* record of every id in 1 .. requestCounter carries that id, and the record
\* of every other id is still the default one, not executed and with
\* requestId 0.  Violated: decryptApproval sets the executed flag of the slot
\* at the round's id, which need not be an allocated request id.
C32_StoragePopulatedExactlyForAllocated ==
    /\ \A id \in Allocated : recoveryRequests[id].requestId = id
    /\ \A id \in Ids \ Allocated :
           /\ ~recoveryRequests[id].executed
           /\ recoveryRequests[id].requestId = 0

====
